---------------------------- MODULE Spec2Model ----------------------------
(*
  Verification model of the two stateful cores of the playwright-template
  repository:

    RetryPoller       TestHelpers.retryOperation   (src/src/utils/test.helpers.ts)
                      APIHelpers.waitForAPIResponse (src/unnamed/part_006),
                      called pollUntil in the specification
    ResultAggregator  CustomReporter                (src/unnamed/part_005)

  Both helpers are async functions.  Each action below is one synchronous run
  of the function between two suspension points (await), so the atomic steps
  of the model are the atomic steps of the JavaScript event loop.
*)
EXTENDS Integers, Sequences, FiniteSets

(***************************************************************************)
(* Bounds of the model                                                     *)
(***************************************************************************)
\* largest maxRetries argument passed to a helper
MaxAttempts == 5
\* number of distinct payloads an operation may resolve or reject with
NumValues == 2

\* largest number of onTestEnd callbacks of one run
MaxTests == 3

\* largest maxRetries argument of a call that runs concurrently with another
MaxConcAttempts == 2

\* largest number of onTestEnd callbacks one of two reporter instances receives
MaxInstTests == 2

\* largest testResults.failed passed to a notification helper
MaxFailed == 2

\* default of the delay parameter (ms)
DefaultDelay == 1000

Values == 1..NumValues
\* maxRetries arguments: negative, zero and positive budgets
MaxRetriesArgs == -1..MaxAttempts
\* delay arguments: immediate retry and the default pause
DelayArgs == {0, DefaultDelay}

(***************************************************************************)
(* JavaScript values the helpers return or throw                           *)
(***************************************************************************)
\* `let lastError: Error | undefined;` starts as undefined
Undefined == [kind |-> "undefined"]
\* a value the operation resolved with
Resolved(v) == [kind |-> "value", val |-> v]
\* a value the operation rejected with (thrown by the operation)
Rejected(v) == [kind |-> "operationError", val |-> v]
\* new Error('API response condition not met within timeout')
ConditionNotMet ==
    [kind |-> "Error", message |-> "API response condition not met within timeout"]
\* no value yet: the call is still pending
Pending == [kind |-> "pending"]

VARIABLES
    helper,      \* which helper was called: "none", "retryOperation", "waitForAPIResponse"
    maxRetries,  \* argument maxRetries
    delay,       \* argument delay (ms)
    condition,   \* argument condition, as the set of payloads it accepts
    i,           \* loop counter
    lastError,   \* retryOperation's local lastError
    pc,          \* "idle", "operation" (await operation()), "delay" (await timer),
                 \* "returned", "thrown"
    outcome,     \* the value the call returned or threw
    hist,        \* settled invocations of operation, in order
    invoked,     \* number of invocations of operation
    waits,       \* number of setTimeout waits started
    condEvals    \* number of evaluations of condition

retryVars == <<helper, maxRetries, delay, condition, i, lastError, pc, outcome,
               hist, invoked, waits, condEvals>>

VARIABLES
    results,     \* CustomReporter.results: the recorded outcomes, in order
    startTime,   \* CustomReporter.startTime: "unset" until onBegin
    config,      \* CustomReporter.config: "unset" until onBegin
    endPc,       \* where onEnd is: "notStarted", "mkdir", "writeJson", "writeMd",
                 \* "resolved", "rejected"
    summary,     \* onEnd's local summary (NoSummary before onEnd computes it)
    pending,     \* the content handed to the writeFile being awaited
    jsonFile,    \* reports/custom-report.json (NoFile while not written)
    mdFile,      \* reports/summary.md (NoFile while not written)
    console,     \* what the most recent callback printed, line by line
    delivered,   \* number of onTestEnd callbacks the runner has delivered
    lastCallback,  \* the callback that ran last ("none" before the first)
    summarizedAt   \* the value of delivered when onEnd was last called

reporterVars == <<results, startTime, config, endPc, summary, pending, jsonFile,
                  mdFile, console, delivered, lastCallback, summarizedAt>>

VARIABLES
    cancelled    \* the caller of the helper has abandoned the call (its test
                 \* timed out); no helper takes an abort signal or reads this

callerVars == <<cancelled>>

VARIABLES
    calls        \* two calls of the helpers in flight at once: for each call its
                 \* arguments, its activation record (i, lastError), where it is
                 \* suspended, and what it returned or threw

concVars == <<calls>>

VARIABLES
    reporters,    \* two CustomReporter instances of one process: for each its
                  \* results array and the summary its onEnd computed
    lastInstance  \* the instance that received the last callback (0: none yet)

instVars == <<reporters, lastInstance>>

VARIABLES
    notification  \* a call of sendSlackNotification / sendTeamsNotification: its
                  \* arguments, where it is, the POSTs it issued, what it logged

notifVars == <<notification>>

vars == <<retryVars, reporterVars, callerVars, concVars, instVars, notifVars>>

(***************************************************************************)
(* RetryPoller: the code of the two helpers                                *)
(***************************************************************************)
\* mutant of LoopCond: the off-by-one `i <= maxRetries`
LoopCondInclusive(k, m) == k <= m

\* the for-loop test `i < maxRetries`, with counter k and budget m
LoopCond(k, m) == k < m

\* mutant of MoreAttempts: the wait follows every unsuccessful attempt, the
\* last one included (`if (i < maxRetries)`)
MoreAttemptsAlways(k, m) == k < m

\* `if (i < maxRetries - 1)`: another attempt follows, so wait first
MoreAttempts(k, m) == k < m - 1

\* mutant of Catches: waitForAPIResponse wraps its attempt in try/catch as well
CatchesEverywhere(h) == TRUE

\* the try/catch around `await operation()`: retryOperation has one,
\* waitForAPIResponse has none
Catches(h) == h = "retryOperation"

\* mutant of CatchError: only the first error is kept (`lastError ??= error`)
CatchFirstError(prev, error) == IF prev = [kind |-> "undefined"] THEN error ELSE prev

\* catch (error) { lastError = error as Error; ... }: the new value of lastError
CatchError(prev, error) == error

\* `throw lastError;` after retryOperation's loop
RetryExhausted(le) == le

\* mutant of PollExhausted: the last response is attached to the error
PollExhaustedWithResponse(response) ==
    [kind |-> "Error", message |-> "API response condition not met within timeout",
     response |-> response]

\* `throw new Error('API response condition not met within timeout')` after
\* waitForAPIResponse's loop; response, the last response, is out of scope there
PollExhausted(response) == ConditionNotMet

\* mutant of ConditionHolds: the inverted test `if (!condition(response))`
ConditionInverted(c, response) == response.val \notin c

\* `condition(response)`, condition given as the set c of payloads it accepts
ConditionHolds(c, response) == response.val \in c

\* mutant of Succeeded: retryOperation awaits the operation but does not return
\* its value (`await operation()` without `return`)
SucceededPollOnly(h, c, response) ==
    IF h = "retryOperation" THEN FALSE ELSE response.val \in c

\* Whether a resolved attempt ends the call: retryOperation returns whatever
\* operation() resolved with (`return await operation()`), waitForAPIResponse
\* returns the response only `if (condition(response))`
Succeeded(h, c, response) ==
    IF h = "retryOperation" THEN TRUE ELSE ConditionHolds(c, response)

\* what the statement after the loop throws
Exhausted(h, le, response) ==
    IF h = "retryOperation" THEN RetryExhausted(le) ELSE PollExhausted(response)

\* The loop head reached with counter k: either the next attempt starts
\* (operation() is invoked and awaited) or the loop ends and the statement
\* after it throws.  h, m: the helper and its budget; le: lastError;
\* response: the last response seen (Undefined when there is none).
LoopHead(h, m, k, le, response) ==
    /\ i' = k
    /\ IF LoopCond(k, m)
       THEN /\ pc' = "operation"
            /\ invoked' = invoked + 1
            /\ outcome' = Pending
       ELSE /\ pc' = "thrown"
            /\ invoked' = invoked
            /\ outcome' = Exhausted(h, le, response)

\* A call of retryOperation(operation, m, d): runs to its first await.
retryOperation(m, d) ==
    /\ pc = "idle"
    /\ helper' = "retryOperation"
    /\ maxRetries' = m
    /\ delay' = d
    /\ condition' = {}
    /\ lastError' = Undefined
    /\ LoopHead("retryOperation", m, 0, Undefined, Undefined)
    /\ UNCHANGED <<hist, waits, condEvals>>

\* A call of waitForAPIResponse(operation, condition, m, d): runs to its first await.
waitForAPIResponse(c, m, d) ==
    /\ pc = "idle"
    /\ helper' = "waitForAPIResponse"
    /\ maxRetries' = m
    /\ delay' = d
    /\ condition' = c
    /\ lastError' = Undefined
    /\ LoopHead("waitForAPIResponse", m, 0, Undefined, Undefined)
    /\ UNCHANGED <<hist, waits, condEvals>>

\* The rest of an iteration whose attempt did not end the call: wait before the
\* next attempt, or fall through to i++ and the loop head.
EndOfIteration(le, response) ==
    IF MoreAttempts(i, maxRetries)
    THEN /\ pc' = "delay"
         /\ waits' = waits + 1
         /\ UNCHANGED <<i, invoked, outcome>>
    ELSE /\ waits' = waits
         /\ LoopHead(helper, maxRetries, i + 1, le, response)

\* The awaited operation() resolves with payload v.
OperationResolves(v) ==
    /\ pc = "operation"
    /\ hist' = Append(hist, Resolved(v))
    /\ UNCHANGED <<helper, maxRetries, delay, condition, lastError>>
    /\ condEvals' = IF helper = "waitForAPIResponse" THEN condEvals + 1 ELSE condEvals
    /\ IF Succeeded(helper, condition, Resolved(v))
       THEN \* return await operation();  /  return response;
            /\ pc' = "returned"
            /\ outcome' = Resolved(v)
            /\ UNCHANGED <<i, invoked, waits>>
       ELSE EndOfIteration(lastError, Resolved(v))

\* The awaited operation() rejects with payload v.
OperationRejects(v) ==
    /\ pc = "operation"
    /\ hist' = Append(hist, Rejected(v))
    /\ UNCHANGED <<helper, maxRetries, delay, condition, condEvals>>
    /\ IF Catches(helper)
       THEN /\ lastError' = CatchError(lastError, Rejected(v))
            /\ EndOfIteration(lastError', Undefined)
       ELSE \* no try/catch: the rejection leaves the async function
            /\ pc' = "thrown"
            /\ outcome' = Rejected(v)
            /\ UNCHANGED <<i, lastError, invoked, waits>>

\* The setTimeout of `await new Promise((resolve) => setTimeout(resolve, delay))`
\* fires: i++ and the loop head.
TimerFires ==
    /\ pc = "delay"
    /\ LoopHead(helper, maxRetries, i + 1, lastError, Undefined)
    /\ UNCHANGED <<helper, maxRetries, delay, condition, lastError, hist, waits,
                   condEvals>>

InitHelpers ==
    /\ helper = "none"
    /\ maxRetries = 0
    /\ delay = 0
    /\ condition = {}
    /\ i = 0
    /\ lastError = Undefined
    /\ pc = "idle"
    /\ outcome = Pending
    /\ hist = <<>>
    /\ invoked = 0
    /\ waits = 0
    /\ condEvals = 0

CallRetry ==
    /\ \E m \in MaxRetriesArgs, d \in DelayArgs : retryOperation(m, d)
    /\ UNCHANGED <<reporterVars, callerVars, concVars, instVars, notifVars>>

CallPoll ==
    /\ \E c \in SUBSET Values, m \in MaxRetriesArgs, d \in DelayArgs :
           waitForAPIResponse(c, m, d)
    /\ UNCHANGED <<reporterVars, callerVars, concVars, instVars, notifVars>>

Resolves ==
    /\ \E v \in Values : OperationResolves(v)
    /\ UNCHANGED <<reporterVars, callerVars, concVars, instVars, notifVars>>

Rejects ==
    /\ \E v \in Values : OperationRejects(v)
    /\ UNCHANGED <<reporterVars, callerVars, concVars, instVars, notifVars>>

Timer ==
    /\ TimerFires
    /\ UNCHANGED <<reporterVars, callerVars, concVars, instVars, notifVars>>

\* The calling context is cancelled (the test timeout fires) while the helper
\* is running an attempt or waiting between attempts.  The helpers take no
\* AbortSignal and register no handler: nothing of the call changes.
Cancel ==
    /\ pc \in {"operation", "delay"}
    /\ ~cancelled
    /\ cancelled' = TRUE
    /\ UNCHANGED <<retryVars, reporterVars, concVars, instVars, notifVars>>

NextRetry ==
    \/ CallRetry
    \/ CallPoll
    \/ Resolves
    \/ Rejects
    \/ Timer

(***************************************************************************)
(* ResultAggregator: CustomReporter                                        *)
(***************************************************************************)
\* TestResult.status of the runner
Statuses == {"passed", "failed", "timedOut", "skipped", "interrupted"}
\* titles of the tests of the suite
Titles == {"A", "B"}
\* TestResult.retry: first attempt and one retry
Retries == {0, 1}
\* the status argument of onEnd
RunStatuses == {"passed", "failed"}
\* a step of a test: its category and whether it carries an error
Steps == [category : {"test.step", "pw:api"}, error : BOOLEAN]

NoSummary == [kind |-> "none"]
NoFile == [kind |-> "none"]

\* test.titlePath().join(' > ')
FullTitle(title) == <<"suite", title>>

\* result.error is set by the runner for a failed or timed out attempt
HasError(status) == status \in {"failed", "timedOut"}

\* the object onTestEnd builds from (test, result); the fields file, line,
\* column, duration, stack, stdout, stderr, attachments, tags and annotations
\* are copied from the runner's objects and read by no computation
TestResultOf(title, status, retry) ==
    [title |-> title, fullTitle |-> FullTitle(title), status |-> status,
     retry |-> retry, error |-> HasError(status)]

\* the lookup of onTestEnd: { passed, failed, timedOut, skipped, interrupted }[status] || unknown
ConsoleIcon(status) ==
    CASE status = "passed" -> "check"
      [] status = "failed" -> "cross"
      [] status = "timedOut" -> "stopwatch"
      [] status = "skipped" -> "next"
      [] status = "interrupted" -> "stop"
      [] OTHER -> "question"

\* the lookup of generateMarkdownSummary: { passed, failed, timedOut, skipped }[r.status] || unknown
MarkdownIcon(status) ==
    CASE status = "passed" -> "check"
      [] status = "failed" -> "cross"
      [] status = "timedOut" -> "stopwatch"
      [] status = "skipped" -> "next"
      [] OTHER -> "question"

\* mutant of FilterStatus: timed out tests are taken for failed ones
FilterStatusOrTimedOut(rs, status) ==
    SelectSeq(rs, LAMBDA r : r.status = status
                               \/ (status = "failed" /\ r.status = "timedOut"))

\* this.results.filter(r => r.status === status)
FilterStatus(rs, status) == SelectSeq(rs, LAMBDA r : r.status = status)

\* mutant of CountStatus: a timed out test is counted as failed
CountStatusTimeoutAsFailed(rs, status) ==
    Len(SelectSeq(rs, LAMBDA r : r.status = status
                                   \/ (status = "failed" /\ r.status = "timedOut")))

\* this.results.filter(r => r.status === status).length
CountStatus(rs, status) == Len(FilterStatus(rs, status))

\* this.results.filter(r => r.retry > 0 && r.status === 'passed').length
CountFlaky(rs) == Len(SelectSeq(rs, LAMBDA r : r.retry > 0 /\ r.status = "passed"))

\* mutant of TotalTests: logical tests are counted, not attempt records
TotalTestsDistinct(rs) == Cardinality({rs[k].fullTitle : k \in 1..Len(rs)})

\* totalTests: this.results.length
TotalTests(rs) == Len(rs)

\* mutant of Summarize: an interrupted attempt is counted as skipped
SummarizeInterruptedAsSkipped(rs, status) ==
    [kind |-> "summary", status |-> status,
     totalTests |-> TotalTests(rs),
     passed |-> CountStatus(rs, "passed"),
     failed |-> CountStatus(rs, "failed"),
     skipped |-> CountStatus(rs, "skipped") + CountStatus(rs, "interrupted"),
     flaky |-> CountFlaky(rs)]

\* the summary object of onEnd; its field results is the array this.results
\* itself (a reference), so it is read from the variable results where used
Summarize(rs, status) ==
    [kind |-> "summary", status |-> status,
     totalTests |-> TotalTests(rs),
     passed |-> CountStatus(rs, "passed"),
     failed |-> CountStatus(rs, "failed"),
     skipped |-> CountStatus(rs, "skipped"),
     flaky |-> CountFlaky(rs)]

\* ((count / totalTests) * 100).toFixed(1): a number of tenths of a percent,
\* or the text JavaScript prints for 0/0 and n/0
Percentage(count, totalTests) ==
    IF totalTests = 0
    THEN IF count = 0 THEN "NaN" ELSE "Infinity"
    ELSE (count * 2000 + totalTests) \div (2 * totalTests)

\* JSON.stringify(summary, null, 2): the summary with the results array as it
\* is when the text is produced
JsonReport(sm, rs) ==
    [kind |-> "json", status |-> sm.status, totalTests |-> sm.totalTests,
     passed |-> sm.passed, failed |-> sm.failed, skipped |-> sm.skipped,
     flaky |-> sm.flaky, results |-> rs]

\* generateMarkdownSummary(summary): the summary table, the Failed Tests section
\* (present when summary.failed > 0) and the details table
generateMarkdownSummary(sm, rs) ==
    [kind |-> "markdown", status |-> sm.status,
     table |-> [passed |-> <<sm.passed, Percentage(sm.passed, sm.totalTests)>>,
                failed |-> <<sm.failed, Percentage(sm.failed, sm.totalTests)>>,
                skipped |-> <<sm.skipped, Percentage(sm.skipped, sm.totalTests)>>,
                flaky |-> <<sm.flaky, Percentage(sm.flaky, sm.totalTests)>>],
     hasFailedSection |-> sm.failed > 0,
     failedTests |-> IF sm.failed > 0
                     THEN [k \in 1..Len(FilterStatus(rs, "failed")) |->
                              FilterStatus(rs, "failed")[k].title]
                     ELSE <<>>,
     details |-> [k \in 1..Len(rs) |-> <<rs[k].title, MarkdownIcon(rs[k].status)>>]]

\* the bordered console summary of onEnd and, when summary.failed > 0, the
\* Failed Tests block
ConsoleSummary(sm, rs) ==
    <<[line |-> "summary", totalTests |-> sm.totalTests, passed |-> sm.passed,
       failed |-> sm.failed, skipped |-> sm.skipped, flaky |-> sm.flaky]>>
    \o (IF sm.failed > 0
        THEN <<[line |-> "Failed Tests:"]>>
             \o [k \in 1..Len(FilterStatus(rs, "failed")) |->
                    [line |-> "failed", fullTitle |-> FilterStatus(rs, "failed")[k].fullTitle]]
        ELSE <<>>)

\* onBegin(config, suite), suite.allTests().length = n
onBegin(n) ==
    /\ config' = "set"
    /\ startTime' = "set"
    /\ console' = <<[line |-> "Starting test run", tests |-> n]>>
    /\ UNCHANGED <<results, endPc, summary, pending, jsonFile, mdFile>>

\* onTestBegin(test, result)
onTestBegin(title) ==
    /\ console' = <<[line |-> "Running test", title |-> title]>>
    /\ UNCHANGED <<results, startTime, config, endPc, summary, pending, jsonFile,
                   mdFile>>

\* onStepBegin(test, result, step)
onStepBegin(step) ==
    /\ console' = IF step.category = "test.step" THEN <<[line |-> "Step"]>> ELSE <<>>
    /\ UNCHANGED <<results, startTime, config, endPc, summary, pending, jsonFile,
                   mdFile>>

\* mutant of onStepEnd: a failed step is recorded as an outcome of its own
onStepEndRecording(step) ==
    /\ console' = IF step.error
                  THEN <<[line |-> "Step failed"], [line |-> "Error"]>>
                  ELSE <<>>
    /\ results' = IF step.error
                  THEN Append(results, TestResultOf("A", "failed", 0))
                  ELSE results
    /\ UNCHANGED <<startTime, config, endPc, summary, pending, jsonFile, mdFile>>

\* onStepEnd(test, result, step)
onStepEnd(step) ==
    /\ console' = IF step.error
                  THEN <<[line |-> "Step failed"], [line |-> "Error"]>>
                  ELSE <<>>
    /\ UNCHANGED <<results, startTime, config, endPc, summary, pending, jsonFile,
                   mdFile>>

\* mutant of onTestEnd: the record is put in front (`this.results.unshift`)
onTestEndPrepending(title, status, retry) ==
    /\ results' = <<TestResultOf(title, status, retry)>> \o results
    /\ console' = <<[line |-> "test", icon |-> ConsoleIcon(status), title |-> title]>>
                  \o (IF HasError(status) THEN <<[line |-> "error"]>> ELSE <<>>)
    /\ UNCHANGED <<startTime, config, endPc, summary, pending, jsonFile, mdFile>>

\* mutant of onTestEnd: an attempt already recorded (same test, same retry) is
\* not recorded again
onTestEndDeduplicating(title, status, retry) ==
    /\ results' = IF \E k \in 1..Len(results) :
                         results[k].title = title /\ results[k].retry = retry
                  THEN results
                  ELSE Append(results, TestResultOf(title, status, retry))
    /\ console' = <<[line |-> "test", icon |-> ConsoleIcon(status), title |-> title]>>
                  \o (IF HasError(status) THEN <<[line |-> "error"]>> ELSE <<>>)
    /\ UNCHANGED <<startTime, config, endPc, summary, pending, jsonFile, mdFile>>

\* onTestEnd(test, result)
onTestEnd(title, status, retry) ==
    /\ results' = Append(results, TestResultOf(title, status, retry))
    /\ console' = <<[line |-> "test", icon |-> ConsoleIcon(status), title |-> title]>>
                  \o (IF HasError(status) THEN <<[line |-> "error"]>> ELSE <<>>)
    /\ UNCHANGED <<startTime, config, endPc, summary, pending, jsonFile, mdFile>>

\* mutant of onEnd: the recorded outcomes are handed to the summary and the
\* accumulator is emptied for a next run (`this.results.splice(0)`)
onEndDraining(status) ==
    /\ IF startTime = "unset"
       THEN /\ endPc' = "rejected"
            /\ summary' = summary
            /\ results' = results
       ELSE /\ summary' = Summarize(results, status)
            /\ endPc' = "mkdir"
            /\ results' = <<>>
    /\ console' = <<>>
    /\ UNCHANGED <<startTime, config, pending, jsonFile, mdFile>>

\* onEnd(result) up to its first await: the summary is computed and
\* fs.promises.mkdir is started
onEnd(status) ==
    /\ IF startTime = "unset"
       THEN \* this.startTime.getTime() of undefined: a TypeError rejects onEnd
            /\ endPc' = "rejected"
            /\ summary' = summary
       ELSE /\ summary' = Summarize(results, status)
            /\ endPc' = "mkdir"
    /\ console' = <<>>
    /\ UNCHANGED <<results, startTime, config, pending, jsonFile, mdFile>>

\* the awaited mkdir settles: on success JSON.stringify(summary) is evaluated
\* and the first writeFile started, on failure onEnd rejects
MkdirSettles(ok) ==
    /\ endPc = "mkdir"
    /\ IF ok
       THEN /\ pending' = JsonReport(summary, results)
            /\ endPc' = "writeJson"
       ELSE /\ pending' = pending
            /\ endPc' = "rejected"
    /\ UNCHANGED <<results, startTime, config, summary, jsonFile, mdFile, console>>

\* the awaited writeFile of custom-report.json settles: on success the
\* markdown is generated and its writeFile started, on failure onEnd rejects
WriteJsonSettles(ok) ==
    /\ endPc = "writeJson"
    /\ IF ok
       THEN /\ jsonFile' = pending
            /\ pending' = generateMarkdownSummary(summary, results)
            /\ endPc' = "writeMd"
       ELSE /\ UNCHANGED <<jsonFile, pending>>
            /\ endPc' = "rejected"
    /\ UNCHANGED <<results, startTime, config, summary, mdFile, console>>

\* the awaited writeFile of summary.md settles: on success the console summary
\* is printed and onEnd resolves, on failure onEnd rejects
WriteMdSettles(ok) ==
    /\ endPc = "writeMd"
    /\ IF ok
       THEN /\ mdFile' = pending
            /\ console' = ConsoleSummary(summary, results)
            /\ endPc' = "resolved"
       ELSE /\ UNCHANGED <<mdFile, console>>
            /\ endPc' = "rejected"
    /\ UNCHANGED <<results, startTime, config, summary, pending, jsonFile>>

\* the state of a constructed reporter: `private results: any[] = [];`
InitReporter ==
    /\ results = <<>>
    /\ startTime = "unset"
    /\ config = "unset"
    /\ endPc = "notStarted"
    /\ summary = NoSummary
    /\ pending = NoFile
    /\ jsonFile = NoFile
    /\ mdFile = NoFile
    /\ console = <<>>
    /\ delivered = 0
    /\ lastCallback = "none"
    /\ summarizedAt = 0

\* The runner's event discipline: onBegin first, then the test callbacks, then
\* onEnd once, after every onTestEnd.
Running == startTime = "set" /\ endPc = "notStarted"

\* what every step of the runner does besides the callback itself: cb is the
\* callback that runs; the helpers and their caller are not involved
Runner(cb) ==
    /\ lastCallback' = cb
    /\ UNCHANGED <<retryVars, callerVars, concVars, instVars, notifVars>>

\* The runner begins a test and runs its steps only while a test of the run
\* has still to end: TestBegin, StepBegin and StepEnd precede a TestEnd.
RunBegin ==
    /\ startTime = "unset"
    /\ \E n \in 0..MaxTests : onBegin(n)
    /\ Runner("onBegin")
    /\ UNCHANGED <<delivered, summarizedAt>>

TestBegin ==
    /\ Running
    /\ Len(results) < MaxTests
    /\ \E title \in Titles : onTestBegin(title)
    /\ Runner("onTestBegin")
    /\ UNCHANGED <<delivered, summarizedAt>>

StepBegin ==
    /\ Running
    /\ Len(results) < MaxTests
    /\ \E step \in Steps : onStepBegin(step)
    /\ Runner("onStepBegin")
    /\ UNCHANGED <<delivered, summarizedAt>>

StepEnd ==
    /\ Running
    /\ Len(results) < MaxTests
    /\ \E step \in Steps : onStepEnd(step)
    /\ Runner("onStepEnd")
    /\ UNCHANGED <<delivered, summarizedAt>>

TestEnd ==
    /\ Running
    /\ Len(results) < MaxTests
    /\ \E title \in Titles, status \in Statuses, retry \in Retries :
           onTestEnd(title, status, retry)
    /\ delivered' = delivered + 1
    /\ Runner("onTestEnd")
    /\ UNCHANGED summarizedAt

RunEnd ==
    /\ Running
    /\ \E status \in RunStatuses : onEnd(status)
    /\ summarizedAt' = delivered
    /\ Runner("onEnd")
    /\ UNCHANGED delivered

Mkdir ==
    /\ \E ok \in BOOLEAN : MkdirSettles(ok)
    /\ Runner("onEnd")
    /\ UNCHANGED <<delivered, summarizedAt>>

WriteJson ==
    /\ \E ok \in BOOLEAN : WriteJsonSettles(ok)
    /\ Runner("onEnd")
    /\ UNCHANGED <<delivered, summarizedAt>>

WriteMd ==
    /\ \E ok \in BOOLEAN : WriteMdSettles(ok)
    /\ Runner("onEnd")
    /\ UNCHANGED <<delivered, summarizedAt>>

NextReporter ==
    \/ RunBegin
    \/ TestBegin
    \/ StepBegin
    \/ StepEnd
    \/ TestEnd
    \/ RunEnd
    \/ Mkdir
    \/ WriteJson
    \/ WriteMd

(***************************************************************************)
(* The reporter without the runner's discipline: callbacks in any order    *)
(***************************************************************************)
\* largest number of onTestEnd callbacks of an undisciplined run
MaxLateTests == 2

\* the attempts an undisciplined runner reports, as <<status, retry>>: test A
\* fails its first attempt and passes its retry (each may be reported again)
LateAttempts == {<<"failed", 0>>, <<"passed", 1>>}

\* no call of onEnd is suspended at one of its awaits
EndIdle == endPc \in {"notStarted", "resolved", "rejected"}

AnyBegin ==
    /\ onBegin(1)
    /\ Runner("onBegin")
    /\ UNCHANGED <<delivered, summarizedAt>>

AnyTestBegin ==
    /\ onTestBegin("A")
    /\ Runner("onTestBegin")
    /\ UNCHANGED <<delivered, summarizedAt>>

AnyStepBegin ==
    /\ \E step \in Steps : onStepBegin(step)
    /\ Runner("onStepBegin")
    /\ UNCHANGED <<delivered, summarizedAt>>

AnyStepEnd ==
    /\ \E step \in Steps : onStepEnd(step)
    /\ Runner("onStepEnd")
    /\ UNCHANGED <<delivered, summarizedAt>>

AnyTestEnd ==
    /\ delivered < MaxLateTests
    /\ \E a \in LateAttempts : onTestEnd("A", a[1], a[2])
    /\ delivered' = delivered + 1
    /\ Runner("onTestEnd")
    /\ UNCHANGED summarizedAt

\* onEnd is called, a first or a further time, while no earlier call of it is
\* suspended
AnyEnd ==
    /\ EndIdle
    /\ onEnd("passed")
    /\ summarizedAt' = delivered
    /\ Runner("onEnd")
    /\ UNCHANGED delivered

NextReporterOpen ==
    \/ AnyBegin
    \/ AnyTestBegin
    \/ AnyStepBegin
    \/ AnyStepEnd
    \/ AnyTestEnd
    \/ AnyEnd
    \/ Mkdir
    \/ WriteJson
    \/ WriteMd

(***************************************************************************)
(* Specifications                                                          *)
(***************************************************************************)
\* nobody has abandoned anything
(***************************************************************************)
(* The reporter driven by the runner for the attempts of one test: every   *)
(* status and retry index, one title.                                      *)
(***************************************************************************)
OneBegin ==
    /\ startTime = "unset"
    /\ onBegin(1)
    /\ Runner("onBegin")
    /\ UNCHANGED <<delivered, summarizedAt>>

OneTestEnd ==
    /\ Running
    /\ Len(results) < MaxTests
    /\ \E status \in Statuses, retry \in Retries : onTestEnd("A", status, retry)
    /\ delivered' = delivered + 1
    /\ Runner("onTestEnd")
    /\ UNCHANGED summarizedAt

OneEnd ==
    /\ Running
    /\ onEnd("passed")
    /\ summarizedAt' = delivered
    /\ Runner("onEnd")
    /\ UNCHANGED delivered

NextReporterOne ==
    \/ OneBegin
    \/ OneTestEnd
    \/ OneEnd
    \/ Mkdir
    \/ WriteJson
    \/ WriteMd

(***************************************************************************)
(* RetryPoller: two calls in flight.  Both helpers are static async        *)
(* functions; a call runs until its next await, and the event loop then    *)
(* resumes whichever suspended call has its promise settled.               *)
(***************************************************************************)
CallIds == {1, 2}
\* the payloads the operation passed to call c resolves or rejects with
OperationValues(c) == {10 * c + 1, 10 * c + 2}
\* the conditions passed to call c: never satisfied, satisfied by one payload
ConcConditions(c) == {{}, {10 * c + 1}}
ConcBudgets == 0..MaxConcAttempts

IdleCall ==
    [helper |-> "none", maxRetries |-> 0, condition |-> {}, i |-> 0,
     lastError |-> Undefined, pc |-> "idle", outcome |-> Pending,
     hist |-> <<>>, invoked |-> 0]

\* mutant of Frame: i and lastError are static fields of the class, one slot
\* for all calls
FrameShared(c) == 1

\* `let lastError` and `for (let i = 0; ...)` are declared inside the function
\* body: call c reads and writes the bindings of its own activation record
Frame(c) == c

\* the loop head of call c reached with counter k, in the calls cs
ConcLoopHead(cs, c, k, response) ==
    LET counted == [cs EXCEPT ![Frame(c)].i = k]
    IN  IF LoopCond(k, cs[c].maxRetries)
        THEN [counted EXCEPT ![c].pc = "operation",
                             ![c].invoked = @ + 1,
                             ![c].outcome = Pending]
        ELSE [counted EXCEPT ![c].pc = "thrown",
                             ![c].outcome =
                                 Exhausted(cs[c].helper,
                                           counted[Frame(c)].lastError, response)]

\* call c is a call of helper h with condition cond and budget m: runs to its
\* first await
ConcCall(c, h, cond, m) ==
    /\ calls[c].pc = "idle"
    /\ LET args == [calls EXCEPT ![c].helper = h,
                                 ![c].maxRetries = m,
                                 ![c].condition = cond]
           declared == [args EXCEPT ![Frame(c)].lastError = Undefined]
       IN  calls' = ConcLoopHead(declared, c, 0, Undefined)

\* the rest of an iteration of call c whose attempt did not end the call
ConcEndOfIteration(cs, c, response) ==
    IF MoreAttempts(cs[Frame(c)].i, cs[c].maxRetries)
    THEN [cs EXCEPT ![c].pc = "delay"]
    ELSE ConcLoopHead(cs, c, cs[Frame(c)].i + 1, response)

\* the operation() awaited by call c resolves with payload v
ConcOperationResolves(c, v) ==
    /\ calls[c].pc = "operation"
    /\ LET settled == [calls EXCEPT ![c].hist = Append(@, Resolved(v))]
       IN  calls' =
               IF Succeeded(calls[c].helper, calls[c].condition, Resolved(v))
               THEN [settled EXCEPT ![c].pc = "returned",
                                    ![c].outcome = Resolved(v)]
               ELSE ConcEndOfIteration(settled, c, Resolved(v))

\* the operation() awaited by call c rejects with payload v
ConcOperationRejects(c, v) ==
    /\ calls[c].pc = "operation"
    /\ LET settled == [calls EXCEPT ![c].hist = Append(@, Rejected(v))]
       IN  calls' =
               IF Catches(calls[c].helper)
               THEN ConcEndOfIteration(
                        [settled EXCEPT ![Frame(c)].lastError =
                                            CatchError(@, Rejected(v))],
                        c, Undefined)
               ELSE [settled EXCEPT ![c].pc = "thrown",
                                    ![c].outcome = Rejected(v)]

\* the setTimeout awaited by call c fires: i++ and the loop head
ConcTimerFires(c) ==
    /\ calls[c].pc = "delay"
    /\ calls' = ConcLoopHead(calls, c, calls[Frame(c)].i + 1, Undefined)

InitCalls == calls = [c \in CallIds |-> IdleCall]

ConcCallRetry ==
    /\ \E c \in CallIds, m \in ConcBudgets : ConcCall(c, "retryOperation", {}, m)
    /\ UNCHANGED <<retryVars, reporterVars, callerVars, instVars, notifVars>>

ConcCallPoll ==
    /\ \E c \in CallIds, m \in ConcBudgets :
           \E cond \in ConcConditions(c) :
               ConcCall(c, "waitForAPIResponse", cond, m)
    /\ UNCHANGED <<retryVars, reporterVars, callerVars, instVars, notifVars>>

ConcResolves ==
    /\ \E c \in CallIds : \E v \in OperationValues(c) : ConcOperationResolves(c, v)
    /\ UNCHANGED <<retryVars, reporterVars, callerVars, instVars, notifVars>>

ConcRejects ==
    /\ \E c \in CallIds : \E v \in OperationValues(c) : ConcOperationRejects(c, v)
    /\ UNCHANGED <<retryVars, reporterVars, callerVars, instVars, notifVars>>

ConcTimer ==
    /\ \E c \in CallIds : ConcTimerFires(c)
    /\ UNCHANGED <<retryVars, reporterVars, callerVars, instVars, notifVars>>

NextConcurrent ==
    \/ ConcCallRetry
    \/ ConcCallPoll
    \/ ConcResolves
    \/ ConcRejects
    \/ ConcTimer

(***************************************************************************)
(* ResultAggregator: two CustomReporter instances in one process           *)
(***************************************************************************)
InstanceIds == {1, 2}

NewReporter == [results |-> <<>>, summary |-> NoSummary, delivered |-> 0]

\* mutant of ResultsOf: the accumulator is a module-level array
\* (`const results: any[] = []` outside the class), one for all instances
ResultsOfModule(r) == 1

\* `private results: any[] = [];` is an instance field with an initializer:
\* this.results of instance r is the array created when r was constructed
ResultsOf(r) == r

\* onTestEnd delivered to instance r
InstanceTestEnd(r, status, retry) ==
    /\ reporters[r].delivered < MaxInstTests
    /\ reporters' =
           [[reporters EXCEPT ![r].delivered = @ + 1]
               EXCEPT ![ResultsOf(r)].results =
                          Append(@, TestResultOf("A", status, retry))]
    /\ lastInstance' = r

\* onEnd delivered to instance r, up to its first await
InstanceEnd(r) ==
    /\ reporters' =
           [reporters EXCEPT ![r].summary =
                Summarize(reporters[ResultsOf(r)].results, "passed")]
    /\ lastInstance' = r

InitInstances ==
    /\ reporters = [r \in InstanceIds |-> NewReporter]
    /\ lastInstance = 0

InstTestEnd ==
    /\ \E r \in InstanceIds, a \in LateAttempts : InstanceTestEnd(r, a[1], a[2])
    /\ UNCHANGED <<retryVars, reporterVars, callerVars, concVars, notifVars>>

InstEnd ==
    /\ \E r \in InstanceIds : InstanceEnd(r)
    /\ UNCHANGED <<retryVars, reporterVars, callerVars, concVars, notifVars>>

NextInstances ==
    \/ InstTestEnd
    \/ InstEnd

(***************************************************************************)
(* NotificationHelpers.sendSlackNotification / sendTeamsNotification       *)
(***************************************************************************)
Channels == {"slack", "teams"}
\* the config argument: undefined (the section is optional), or a section
\* with enabled and the optional onlyOnFailure
NoConfig == [kind |-> "undefined"]
ConfigArgs ==
    {NoConfig} \cup [kind : {"config"}, enabled : BOOLEAN,
                     onlyOnFailure : {"undefined", "true", "false"}]
\* the webhookUrl argument: empty or not
WebhookUrlArgs == {"", "https://hooks"}
\* testResults.failed
FailedArgs == 0..MaxFailed
\* how the awaited fetch settles: a response with ok, a response with !ok, or
\* a rejection (network error)
FetchOutcomes == {"ok", "notOk", "networkError"}

\* `!config?.enabled || !webhookUrl`
NotEnabled(cfg, webhookUrl) ==
    \/ cfg = NoConfig
    \/ ~cfg.enabled
    \/ webhookUrl = ""

\* `const status = failed > 0 ? 'failed' : 'passed';`
StatusOf(failed) == IF failed > 0 THEN "failed" ELSE "passed"

\* mutant of PassSuppressed: a passed run is never reported
PassSuppressedAlways(cfg, status) == status = "passed"

\* `config.onlyOnFailure && status === 'passed'`
PassSuppressed(cfg, status) == cfg.onlyOnFailure = "true" /\ status = "passed"

\* the message posted: its title (Slack `Test Run Passed/Failed`, Teams
\* summary) and the Failed field, both taken from testResults
Message(channel, failed) ==
    [channel |-> channel,
     title |-> IF StatusOf(failed) = "passed" THEN "Test Run Passed"
                                               ELSE "Test Run Failed",
     failed |-> failed]

\* mutant of InTry: the check of response.ok stands after the try/catch
InTryFetchOnly(fetched) == fetched = "networkError"

\* both the awaited fetch and `if (!response.ok) throw` are inside the try
\* block, whose catch logs with console.error
InTry(fetched) == TRUE

NoNotification ==
    [channel |-> "none", config |-> NoConfig, webhookUrl |-> "", failed |-> 0,
     pc |-> "idle", posts |-> <<>>, response |-> "none", logged |-> 0]

\* a call of a helper: runs to its return or to `await fetch(...)`
sendNotification(channel, webhookUrl, failed, cfg) ==
    /\ notification.pc = "idle"
    /\ LET called == [notification EXCEPT !.channel = channel, !.config = cfg,
                                          !.webhookUrl = webhookUrl,
                                          !.failed = failed]
       IN  notification' =
               IF NotEnabled(cfg, webhookUrl)
               THEN [called EXCEPT !.pc = "resolved"]
               ELSE IF PassSuppressed(cfg, StatusOf(failed))
               THEN [called EXCEPT !.pc = "resolved"]
               ELSE [called EXCEPT !.pc = "fetch",
                                   !.posts = Append(@, Message(channel, failed))]

sendSlackNotification(webhookUrl, failed, cfg) ==
    sendNotification("slack", webhookUrl, failed, cfg)

sendTeamsNotification(webhookUrl, failed, cfg) ==
    sendNotification("teams", webhookUrl, failed, cfg)

\* the awaited fetch settles
FetchSettles(fetched) ==
    /\ notification.pc = "fetch"
    /\ notification' =
           IF fetched = "ok"
           THEN [notification EXCEPT !.response = fetched, !.pc = "resolved"]
           ELSE IF InTry(fetched)
           THEN [notification EXCEPT !.response = fetched, !.pc = "resolved",
                                     !.logged = @ + 1]
           ELSE [notification EXCEPT !.response = fetched, !.pc = "rejected"]

InitNotification == notification = NoNotification

SendSlack ==
    /\ \E webhookUrl \in WebhookUrlArgs, failed \in FailedArgs, cfg \in ConfigArgs :
           sendSlackNotification(webhookUrl, failed, cfg)
    /\ UNCHANGED <<retryVars, reporterVars, callerVars, concVars, instVars>>

SendTeams ==
    /\ \E webhookUrl \in WebhookUrlArgs, failed \in FailedArgs, cfg \in ConfigArgs :
           sendTeamsNotification(webhookUrl, failed, cfg)
    /\ UNCHANGED <<retryVars, reporterVars, callerVars, concVars, instVars>>

Fetch ==
    /\ \E fetched \in FetchOutcomes : FetchSettles(fetched)
    /\ UNCHANGED <<retryVars, reporterVars, callerVars, concVars, instVars>>

NextNotification ==
    \/ SendSlack
    \/ SendTeams
    \/ Fetch

InitCaller == cancelled = FALSE

InitRetry ==
    InitHelpers /\ InitReporter /\ InitCaller /\ InitCalls /\ InitInstances
        /\ InitNotification

SpecRetry == InitRetry /\ [][NextRetry]_vars

\* every awaited operation() settles and every timer fires
SpecRetryFair ==
    /\ InitRetry
    /\ [][NextRetry]_vars
    /\ WF_vars(Resolves \/ Rejects)
    /\ WF_vars(Timer)

\* the helpers with a caller that may abandon the call
NextRetryCancel ==
    \/ CallRetry
    \/ CallPoll
    \/ Resolves
    \/ Rejects
    \/ Timer
    \/ Cancel

SpecRetryCancel == InitRetry /\ [][NextRetryCancel]_vars

\* the reporter driven by the runner; no helper call in flight
SpecReporter == InitRetry /\ [][NextReporter]_vars

\* two helper calls in flight at once
SpecConcurrent == InitRetry /\ [][NextConcurrent]_vars

\* the reporter driven by the runner for the attempts of one test
SpecReporterOne == InitRetry /\ [][NextReporterOne]_vars

\* two reporter instances receiving callbacks in any order
SpecInstances == InitRetry /\ [][NextInstances]_vars

\* one call of a notification helper
SpecNotification == InitRetry /\ [][NextNotification]_vars

\* the reporter receiving its callbacks in any order
SpecReporterOpen == InitRetry /\ [][NextReporterOpen]_vars

(***************************************************************************)
(* Claims about RetryPoller                                                *)
(***************************************************************************)
IsRetry == helper = "retryOperation"
IsPoll == helper = "waitForAPIResponse"
Finished == pc \in {"returned", "thrown"}
IsValue(o) == o.kind = "value"
IsThrow(o) == o.kind = "operationError"
\* the settled invocations so far all threw
AllThrew == \A j \in 1..Len(hist) : IsThrow(hist[j])
\* the settled invocations so far all resolved with a response failing condition
\* the caller's predicate is true of settled invocation o
Satisfies(o) == IsValue(o) /\ o.val \in condition
NoneSatisfied == \A j \in 1..Len(hist) : IsValue(hist[j]) /\ ~Satisfies(hist[j])
\* an error value that identifies an invalid RetryPolicy
IsConfigurationError(e) == e.kind = "ConfigurationError"

\* C1: retryOperation with maxRetries >= 1: when the k-th invocation is the first
\* that does not throw, the call returns exactly that invocation's value,
\* operation has been invoked exactly k times and is never invoked again; and
\* the call returns only in that case.
C1_RetryReturnsFirstSuccess ==
    (IsRetry /\ maxRetries >= 1) =>
        /\ \A k \in 1..Len(hist) :
               IsValue(hist[k]) =>
                   /\ k = Len(hist)
                   /\ k <= maxRetries
                   /\ invoked = k
                   /\ pc = "returned"
                   /\ outcome = hist[k]
        /\ pc = "returned" => (Len(hist) >= 1 /\ IsValue(hist[Len(hist)]))

\* C1 witness: maxRetries 3, delay 0, two throws then a success, returned
C1_Witness ==
    /\ IsRetry /\ maxRetries = 3 /\ delay = 0 /\ pc = "returned"
    /\ Len(hist) = 3 /\ IsThrow(hist[1]) /\ IsThrow(hist[2])
    /\ outcome = hist[3] /\ invoked = 3

\* C2: retryOperation with maxRetries >= 1 whose operation throws every time
\* invokes it exactly maxRetries times and then throws the error of the last
\* invocation; it throws in no other case.
C2_RetryThrowsLastError ==
    (IsRetry /\ maxRetries >= 1) =>
        /\ (Len(hist) = maxRetries /\ AllThrew) =>
               /\ pc = "thrown"
               /\ invoked = maxRetries
               /\ outcome = hist[maxRetries]
        /\ pc = "thrown" => (Len(hist) = maxRetries /\ AllThrew)

\* C2 witness: three throws whose first and last errors differ
C2_Witness ==
    /\ IsRetry /\ maxRetries = 3 /\ pc = "thrown" /\ Len(hist) = 3
    /\ hist[1] # hist[3] /\ outcome = hist[3]

\* C3: waitForAPIResponse with maxRetries >= 1 and an operation that never
\* throws: when the k-th response is the first that satisfies condition, the
\* call returns exactly that response and operation has been invoked exactly k
\* times; and the call returns only in that case.
C3_PollReturnsFirstSatisfying ==
    (IsPoll /\ maxRetries >= 1 /\ \A j \in 1..Len(hist) : IsValue(hist[j])) =>
        /\ \A k \in 1..Len(hist) :
               Satisfies(hist[k]) =>
                   /\ k = Len(hist)
                   /\ k <= maxRetries
                   /\ invoked = k
                   /\ pc = "returned"
                   /\ outcome = hist[k]
        /\ pc = "returned" =>
               (Len(hist) >= 1 /\ Satisfies(hist[Len(hist)]))

\* C3 witness: maxRetries 5, delay 0, condition first true on the 4th response
C3_Witness ==
    /\ IsPoll /\ maxRetries = 5 /\ delay = 0 /\ pc = "returned"
    /\ Len(hist) = 4 /\ invoked = 4 /\ outcome = hist[4]
    /\ \A j \in 1..3 : IsValue(hist[j]) /\ ~Satisfies(hist[j])

\* C4: waitForAPIResponse with maxRetries >= 1 none of whose maxRetries
\* responses satisfies condition throws the generic 'condition not met' error,
\* an Error with a message and nothing else (no response attached), after exactly
\* maxRetries invocations; the generic error is thrown in no other case.
C4_PollTimeoutCarriesNoResult ==
    (IsPoll /\ maxRetries >= 1) =>
        /\ (Len(hist) = maxRetries /\ NoneSatisfied) =>
               /\ pc = "thrown"
               /\ invoked = maxRetries
               /\ outcome.kind = "Error"
               /\ DOMAIN outcome = {"kind", "message"}
               /\ outcome.message = "API response condition not met within timeout"
        /\ (pc = "thrown" /\ outcome.kind = "Error") =>
               (Len(hist) = maxRetries /\ NoneSatisfied)

\* C4 witness: three responses, none accepted, although condition accepts something
C4_Witness ==
    /\ IsPoll /\ maxRetries = 3 /\ pc = "thrown" /\ Len(hist) = 3 /\ NoneSatisfied
    /\ condition # {} /\ outcome = ConditionNotMet

\* C5: in waitForAPIResponse a throw of the j-th invocation propagates at once:
\* the call has thrown that error, operation was invoked exactly j times,
\* condition was evaluated j - 1 times (not for attempt j) and only the j - 1
\* waits before attempt j happened.  retryOperation instead catches the throw:
\* with attempts left it goes on to the wait and the next attempt.
C5_PollPropagatesThrow ==
    /\ (IsPoll /\ Len(hist) >= 1 /\ IsThrow(hist[Len(hist)])) =>
           /\ pc = "thrown"
           /\ outcome = hist[Len(hist)]
           /\ invoked = Len(hist)
           /\ condEvals = Len(hist) - 1
           /\ waits = Len(hist) - 1
    /\ (IsRetry /\ Len(hist) >= 1 /\ IsThrow(hist[Len(hist)])
            /\ Len(hist) < maxRetries) =>
           /\ pc \in {"delay", "operation"}
           /\ outcome = Pending

\* C5 witness: the 2nd invocation of 5 throws and the poll has thrown its error
C5_Witness ==
    /\ IsPoll /\ maxRetries = 5 /\ Len(hist) = 2 /\ IsValue(hist[1])
    /\ IsThrow(hist[2]) /\ pc = "thrown" /\ outcome = hist[2] /\ invoked = 2

\* C6: retryOperation called with maxRetries <= 0 fails with a configuration
\* error that identifies the invalid policy, without invoking operation and
\* without waiting.
C6_RetryZeroBudgetIsConfigurationError ==
    (IsRetry /\ maxRetries <= 0 /\ pc # "idle") =>
        /\ pc = "thrown"
        /\ IsConfigurationError(outcome)
        /\ invoked = 0
        /\ waits = 0

\* C7: waitForAPIResponse called with maxRetries <= 0 fails with a configuration
\* error, which is not the 'condition not met' error of an exhausted budget
\* (and is the kind of error retryOperation is to raise for the same policy).
C7_PollZeroBudgetIsConfigurationError ==
    (IsPoll /\ maxRetries <= 0 /\ pc # "idle") =>
        /\ pc = "thrown"
        /\ outcome # ConditionNotMet
        /\ IsConfigurationError(outcome)

\* C8: bounded termination: with maxRetries >= 1 and any delay >= 0, when every
\* awaited operation settles and every timer fires, each call of either helper
\* eventually returns or throws, having invoked operation at least once and at
\* most maxRetries times; at no time has it invoked operation more often.
C8_BoundedTermination ==
    /\ []((helper # "none" /\ maxRetries >= 1) => invoked <= maxRetries)
    /\ (helper # "none" /\ maxRetries >= 1)
           ~> (Finished /\ invoked >= 1 /\ invoked <= maxRetries)

\* C8 witness: a call with delay 0 that used its whole budget of 5 and ended
C8_Witness ==
    /\ helper # "none" /\ delay = 0 /\ maxRetries = 5 /\ Finished
    /\ invoked = 5 /\ waits = 4

(***************************************************************************)
(* Claims about ResultAggregator                                           *)
(***************************************************************************)
\* onEnd has computed its summary
Summarized == summary # NoSummary
\* the number of recorded outcomes with status st
NumWithStatus(st) == Cardinality({k \in 1..Len(results) : results[k].status = st})

\* C9: each onTestEnd appends exactly one outcome: after N onTestEnd callbacks
\* on a fresh reporter the outcomes sequence has length N, and once onEnd has
\* computed the summary, totalTests is N and the numbers of outcomes per
\* status (passed, failed, skipped, timedOut, interrupted) add up to N.
C9_OneOutcomePerTestEnd ==
    /\ Len(results) = delivered
    /\ Summarized =>
           /\ summary.totalTests = delivered
           /\ NumWithStatus("passed") + NumWithStatus("failed")
                  + NumWithStatus("skipped") + NumWithStatus("timedOut")
                  + NumWithStatus("interrupted") = delivered

\* C9 witness: three onTestEnd callbacks, two of them for the same attempt of
\* the same test, then onEnd ran to its end
C9_Witness ==
    /\ delivered = 3 /\ Summarized /\ endPc = "resolved"
    /\ summary.totalTests = 3
    /\ results[1].title = results[2].title /\ results[1].retry = results[2].retry

\* C10: the summary's passed, failed and skipped equal the number of recorded
\* outcomes with status passed, failed and skipped.
C10_CountsPerStatus ==
    Summarized =>
        /\ summary.passed = NumWithStatus("passed")
        /\ summary.failed = NumWithStatus("failed")
        /\ summary.skipped = NumWithStatus("skipped")

\* C10 witness: one passed, one failed and one timed out outcome summarized as
\* passed 1, failed 1, skipped 0, flaky 0 and written to custom-report.json
C10_Witness ==
    /\ Summarized /\ jsonFile # NoFile
    /\ NumWithStatus("passed") = 1 /\ NumWithStatus("failed") = 1
    /\ NumWithStatus("timedOut") = 1
    /\ jsonFile.passed = 1 /\ jsonFile.failed = 1 /\ jsonFile.skipped = 0
    /\ jsonFile.flaky = 0

\* the fullTitles recorded so far
RecordedTitles == {results[k].fullTitle : k \in 1..Len(results)}
\* the positions of the outcomes of the group of fullTitle ft
GroupOf(ft) == {k \in 1..Len(results) : results[k].fullTitle = ft}
\* the largest retry index recorded for ft
MaxRetryOf(ft) ==
    CHOOSE r \in {results[k].retry : k \in GroupOf(ft)} :
        \A k \in GroupOf(ft) : results[k].retry <= r
\* the outcome of ft at its largest retry index (the last one recorded with it)
FinalOutcomeOf(ft) ==
    LET at == {k \in GroupOf(ft) : results[k].retry = MaxRetryOf(ft)}
    IN  results[CHOOSE k \in at : \A j \in at : j <= k]
\* the number of groups whose largest retry index is > 0 and passed there
FlakyGroups ==
    Cardinality({ft \in RecordedTitles :
                    MaxRetryOf(ft) > 0 /\ FinalOutcomeOf(ft).status = "passed"})

\* C11: the flaky count of the summary is the number of fullTitle groups whose
\* largest retry index is > 0 and whose outcome at that index passed.
C11_FlakyCountsGroups == Summarized => summary.flaky = FlakyGroups

\* C12: with no recorded outcome (totalTests = 0) none of the four percentage
\* cells of the generated markdown is NaN.
C12_NoNaNPercentage ==
    \A f \in {pending, mdFile} :
        (f.kind = "markdown" /\ Summarized /\ summary.totalTests = 0) =>
            /\ f.table.passed[2] # "NaN"
            /\ f.table.failed[2] # "NaN"
            /\ f.table.skipped[2] # "NaN"
            /\ f.table.flaky[2] # "NaN"

\* C13: a failure of mkdir or of a writeFile does not make onEnd fail: onEnd
\* always resolves, with the console summary printed.
C13_WriteFailureRecovered ==
    endPc \in {"resolved", "rejected"} =>
        /\ endPc = "resolved"
        /\ Len(console) >= 1
        /\ console[1].line = "summary"

\* the outcomes with status failed, in recording order
RECURSIVE FailedIn(_)
FailedIn(rs) ==
    IF rs = <<>>
    THEN <<>>
    ELSE (IF Head(rs).status = "failed" THEN <<Head(rs)>> ELSE <<>>)
         \o FailedIn(Tail(rs))

\* C15: the Failed Tests section of summary.md and the Failed Tests block of
\* the console summary are present exactly when an outcome failed, and then
\* hold one entry per failed outcome, in recording order.
C15_FailedSectionListsFailures ==
    LET failed == FailedIn(results)
    IN  /\ mdFile # NoFile =>
               /\ mdFile.hasFailedSection <=> (Len(failed) > 0)
               /\ Len(mdFile.failedTests) = Len(failed)
               /\ \A k \in 1..Len(failed) : mdFile.failedTests[k] = failed[k].title
        /\ endPc = "resolved" =>
               /\ (Len(console) > 1) <=> (Len(failed) > 0)
               /\ Len(failed) > 0 =>
                      /\ console[2].line = "Failed Tests:"
                      /\ Len(console) = Len(failed) + 2
                      /\ \A k \in 1..Len(failed) :
                             /\ console[k + 2].line = "failed"
                             /\ console[k + 2].fullTitle = failed[k].fullTitle

\* C15 witness: failed A, timed out B, failed B; both failures listed in order
\* in summary.md and on the console
C15_Witness ==
    /\ endPc = "resolved" /\ Len(results) = 3
    /\ results[1].status = "failed" /\ results[1].title = "A"
    /\ results[2].status = "timedOut"
    /\ results[3].status = "failed" /\ results[3].title = "B"
    /\ mdFile.hasFailedSection /\ mdFile.failedTests = <<"A", "B">>
    /\ Len(console) = 4

\* C20: a wait happens exactly between two consecutive attempts: while an
\* attempt runs and once the call has ended, waits = invocations - 1; a wait is
\* pending only after an unsuccessful attempt that is not the last of the budget.
C20_WaitsBetweenAttempts ==
    (helper # "none" /\ maxRetries >= 1) =>
        /\ pc = "operation" => waits = invoked - 1
        /\ Finished => waits = invoked - 1
        /\ pc = "delay" =>
               /\ waits = invoked
               /\ invoked < maxRetries
               /\ Len(hist) = invoked
               /\ IF IsRetry THEN IsThrow(hist[invoked]) ELSE ~Satisfies(hist[invoked])

\* C20 witness: a poll of budget 3 that ended after 3 unaccepted responses and
\* 2 waits
C20_Witness ==
    /\ IsPoll /\ maxRetries = 3 /\ pc = "thrown" /\ invoked = 3 /\ waits = 2
    /\ NoneSatisfied

\* C18: once the calling context is cancelled, the helper makes no further
\* invocation of operation.
C18_NoAttemptAfterCancel == [][cancelled => invoked' = invoked]_vars

\* onEnd has run to its end: the run is finalized
Finalized == endPc = "resolved"

\* C14: finalization is terminal: once onEnd has finalized the run, no later
\* callback changes the outcomes sequence, the summary or the written artifacts.
C14_FinalizationIsTerminal ==
    [][Finalized => /\ results' = results
                    /\ summary' = summary
                    /\ jsonFile' = jsonFile
                    /\ mdFile' = mdFile]_vars

\* this step is a call of onEnd that computes a summary
OnEndComputes == lastCallback' = "onEnd" /\ endPc # "mkdir" /\ endPc' = "mkdir"

\* C16: the derived counts are a pure function of the recorded outcomes: a call
\* of onEnd leaves the outcomes sequence unchanged, and a call that follows an
\* earlier one with no onTestEnd in between computes the same totalTests,
\* passed, failed, skipped and flaky.
C16_SummaryIsPure ==
    [][OnEndComputes =>
           /\ results' = results
           /\ (Summarized /\ summarizedAt = delivered) =>
                  /\ summary'.totalTests = summary.totalTests
                  /\ summary'.passed = summary.passed
                  /\ summary'.failed = summary.failed
                  /\ summary'.skipped = summary.skipped
                  /\ summary'.flaky = summary.flaky]_vars

\* C16 witness: custom-report.json of a first onEnd over two outcomes is on
\* disk, and a second onEnd over the same outcomes has computed its summary
C16_Witness ==
    /\ endPc = "mkdir" /\ jsonFile # NoFile /\ Len(results) = 2
    /\ jsonFile.results = results /\ summarizedAt = delivered
    /\ summary.totalTests = 2 /\ jsonFile.totalTests = 2
    /\ summary.flaky = 1 /\ jsonFile.flaky = 1

\* C17: onTestBegin, onStepBegin and onStepEnd change nothing of the reporter
\* (outcomes, start time, config, the state of onEnd, summary, artifacts),
\* whatever their arguments and whenever they are called; they only print.
\* Only onTestEnd changes the outcomes sequence.
C17_ProgressCallbacksOnlyPrint ==
    [][/\ lastCallback' \in {"onTestBegin", "onStepBegin", "onStepEnd"} =>
              UNCHANGED <<results, startTime, config, endPc, summary, pending,
                          jsonFile, mdFile>>
       /\ results' # results => lastCallback' = "onTestEnd"]_vars

\* C17 witness: onStepEnd with a step error has just run, after two outcomes
\* were recorded and while onEnd is suspended at a writeFile
C17_Witness ==
    /\ lastCallback = "onStepEnd"
    /\ console = <<[line |-> "Step failed"], [line |-> "Error"]>>
    /\ Len(results) = 2 /\ endPc = "writeJson" /\ startTime = "set"

\* what a finished call with arguments and settled attempts as in r must have
\* returned or thrown, from its own operation's outcomes alone
OwnOutcome(r) ==
    IF r.hist = <<>>
    THEN IF r.helper = "retryOperation" THEN Undefined ELSE ConditionNotMet
    ELSE LET last == r.hist[Len(r.hist)]
         IN  IF r.helper = "retryOperation" THEN last
             ELSE IF last.kind = "operationError" THEN last
             ELSE IF last.val \in r.condition THEN last
             ELSE ConditionNotMet

\* C19: concurrent calls are independent: under every interleaving of two
\* calls, each call invokes its own operation at most maxRetries times, and
\* what it returns or throws is determined by its own operation's outcomes.
C19_ConcurrentCallsIndependent ==
    \A c \in CallIds :
        LET r == calls[c]
        IN  /\ r.invoked <= (IF r.maxRetries > 0 THEN r.maxRetries ELSE 0)
            /\ Len(r.hist) <= r.invoked
            /\ r.pc \in {"returned", "thrown"} =>
                   /\ r.outcome = OwnOutcome(r)
                   /\ r.pc = "returned" <=> r.outcome.kind = "value"

\* C19 witness: call 1 threw its own last error after two attempts that were
\* interleaved with call 2, which caught an error of its own in between and
\* is still in flight
C19_Witness ==
    /\ calls[1].helper = "retryOperation" /\ calls[1].pc = "thrown"
    /\ calls[1].hist = <<Rejected(11), Rejected(12)>>
    /\ calls[1].outcome = Rejected(12)
    /\ calls[2].helper = "retryOperation" /\ calls[2].pc = "delay"
    /\ calls[2].lastError = Rejected(21) /\ calls[2].i = 0

\* s is an initial part of t
IsPrefix(s, t) == Len(s) <= Len(t) /\ \A k \in 1..Len(s) : s[k] = t[k]

\* C21: onTestEnd appends the new outcome at the end of the outcomes sequence
\* and leaves every outcome recorded before unchanged, so the results array of
\* the written custom-report.json lists the outcomes in the order of the
\* onTestEnd calls.
C21_AppendsInOrder ==
    [][/\ lastCallback' = "onTestEnd" =>
              /\ Len(results') = Len(results) + 1
              /\ \A k \in 1..Len(results) : results'[k] = results[k]
              /\ results'[Len(results')].title = console'[1].title
       /\ jsonFile' # NoFile => IsPrefix(jsonFile'.results, results')]_vars

\* C21 witness: a failed and then a passed outcome were recorded, and the
\* written custom-report.json lists them in that order
C21_Witness ==
    /\ endPc = "resolved" /\ Len(results) = 2
    /\ results[1].status = "failed" /\ results[2].status = "passed"
    /\ jsonFile.results = results

\* C22: the reporter does not deduplicate: every onTestEnd adds a record, also
\* for a test and retry index recorded before, and a summary computed then
\* counts every record in totalTests and in the counter of its status.
C22_NoDeduplication ==
    [][/\ delivered' = delivered + 1 => Len(results') = Len(results) + 1
       /\ OnEndComputes =>
              /\ summary'.totalTests = delivered
              /\ summary'.passed = NumWithStatus("passed")
              /\ summary'.failed = NumWithStatus("failed")
              /\ summary'.skipped = NumWithStatus("skipped")]_vars

\* C22 witness: the same attempt (test A, retry 1, passed) was delivered
\* twice, and the summary counts two tests, both passed
C22_Witness ==
    /\ Summarized /\ summarizedAt = delivered /\ delivered = 2
    /\ Len(results) = 2 /\ results[1] = results[2]
    /\ summary.totalTests = 2 /\ summary.passed = 2

\* C23: in every state right after onBegin the outcomes sequence is empty,
\* whatever callbacks the reporter received before.
C23_BeginStartsEmpty == [][lastCallback' = "onBegin" => results' = <<>>]_vars

\* C25: for every status the glyph of the console progress line of onTestEnd
\* is the glyph the details table of summary.md shows for an outcome of that
\* status.
C25_SameGlyphEverywhere ==
    mdFile # NoFile =>
        \A k \in 1..Len(mdFile.details) :
            mdFile.details[k][2] = ConsoleIcon(results[k].status)

\* the number of recorded outcomes that are timed out or interrupted
NumUncounted == NumWithStatus("timedOut") + NumWithStatus("interrupted")

\* C26: in every computed summary passed + failed + skipped <= totalTests,
\* with equality exactly when no outcome is timed out or interrupted; such
\* outcomes are in totalTests, in none of the three counters, and not in the
\* Failed Tests section.
C26_UncountedStatuses ==
    /\ Summarized =>
           /\ summary.passed + summary.failed + summary.skipped
                  = summary.totalTests - NumUncounted
           /\ summary.totalTests = Len(results)
    /\ mdFile # NoFile =>
           /\ Len(mdFile.failedTests) = NumWithStatus("failed")
           /\ mdFile.hasFailedSection <=> NumWithStatus("failed") > 0

\* C26 witness: a timed out and an interrupted attempt and a passed one:
\* totalTests 3, counters 1 + 0 + 0, no Failed Tests section in summary.md
C26_Witness ==
    /\ endPc = "resolved" /\ Len(results) = 3
    /\ NumWithStatus("timedOut") = 1 /\ NumWithStatus("interrupted") = 1
    /\ summary.totalTests = 3 /\ summary.passed = 1
    /\ summary.failed = 0 /\ summary.skipped = 0
    /\ ~mdFile.hasFailedSection

\* C27: counts are per attempt record: flaky <= passed <= totalTests, and a
\* test failed on retry 0 and passed on retry 1 gives totalTests 2, failed 1,
\* passed 1, flaky 1, with the Failed Tests section present.
C27_CountsPerAttempt ==
    /\ Summarized =>
           /\ summary.flaky <= summary.passed
           /\ summary.passed <= summary.totalTests
    /\ (Summarized /\ Len(results) = 2
          /\ results[1].status = "failed" /\ results[1].retry = 0
          /\ results[2].status = "passed" /\ results[2].retry = 1) =>
           /\ summary.totalTests = 2 /\ summary.failed = 1
           /\ summary.passed = 1 /\ summary.flaky = 1
           /\ mdFile # NoFile => mdFile.hasFailedSection

\* C27 witness: test A failed on retry 0 and passed on retry 1, and summary.md
\* was written with a Failed Tests section naming A
C27_Witness ==
    /\ endPc = "resolved" /\ Len(results) = 2
    /\ results[1].status = "failed" /\ results[1].retry = 0
    /\ results[2].status = "passed" /\ results[2].retry = 1
    /\ results[1].fullTitle = results[2].fullTitle
    /\ summary.totalTests = 2 /\ summary.flaky = 1
    /\ mdFile.hasFailedSection /\ mdFile.failedTests = <<"A">>

\* C28: the written custom-report.json is consistent with itself: totalTests
\* is the number of entries of its results array and passed, failed and
\* skipped are the numbers of entries with that status, also when onTestEnd
\* is delivered while onEnd is suspended at mkdir or writeFile.
C28_JsonReportConsistent ==
    jsonFile # NoFile =>
        LET rs == jsonFile.results
            n(st) == Cardinality({k \in 1..Len(rs) : rs[k].status = st})
        IN  /\ jsonFile.totalTests = Len(rs)
            /\ jsonFile.passed = n("passed")
            /\ jsonFile.failed = n("failed")
            /\ jsonFile.skipped = n("skipped")

\* C24: each reporter instance owns its outcomes: a callback delivered to one
\* of two instances changes neither the outcomes nor the summary of the
\* other, and every instance holds as many outcomes as it received onTestEnd
\* callbacks.
C24_InstancesOwnOutcomes ==
    [][\A r \in InstanceIds :
           /\ lastInstance' # r =>
                  /\ reporters'[r].results = reporters[r].results
                  /\ reporters'[r].summary = reporters[r].summary
           /\ Len(reporters'[r].results) = reporters'[r].delivered]_vars

\* C24 witness: instance 1 summarized its one failed outcome, instance 2 then
\* recorded two passed outcomes and summarized them
C24_Witness ==
    /\ lastInstance = 2
    /\ Len(reporters[1].results) = 1 /\ reporters[1].results[1].status = "failed"
    /\ reporters[1].summary # NoSummary /\ reporters[1].summary.totalTests = 1
    /\ reporters[1].summary.failed = 1
    /\ Len(reporters[2].results) = 2 /\ reporters[2].results[1].status = "passed"
    /\ reporters[2].summary # NoSummary /\ reporters[2].summary.totalTests = 2
    /\ reporters[2].summary.failed = 0

(***************************************************************************)
(* Claims about NotificationHelpers                                        *)
(***************************************************************************)
\* the call was made with a missing or disabled config, an empty webhook URL,
\* or onlyOnFailure set and no failed test
NothingToSend ==
    \/ notification.config = NoConfig
    \/ ~notification.config.enabled
    \/ notification.webhookUrl = ""
    \/ (notification.config.onlyOnFailure = "true" /\ notification.failed = 0)

\* C29: the helpers issue no POST when the config is missing or disabled, the
\* webhook URL is empty, or onlyOnFailure is set and failed = 0; in every
\* other case they issue exactly one POST, which reports a failed run if and
\* only if failed > 0.
C29_PostExactlyWhenDue ==
    notification.channel # "none" =>
        IF NothingToSend
        THEN notification.posts = <<>> /\ notification.pc = "resolved"
        ELSE /\ Len(notification.posts) = 1
             /\ notification.posts[1].channel = notification.channel
             /\ notification.posts[1].title = "Test Run Failed"
                    <=> notification.failed > 0

\* C29 witness: Slack, onlyOnFailure unset, no failed test: one POST reporting
\* a passed run, answered with ok
C29_Witness ==
    /\ notification.channel = "slack" /\ notification.pc = "resolved"
    /\ notification.config # NoConfig
    /\ notification.config.onlyOnFailure = "undefined"
    /\ notification.failed = 0 /\ notification.response = "ok"
    /\ Len(notification.posts) = 1
    /\ notification.posts[1].title = "Test Run Passed"

\* C30: a failure of the POST (fetch rejects, or the response is not ok)
\* never reaches the caller: the call does not reject, it resolves as soon
\* as the fetch has settled, and the failure is logged once.
C30_PostFailureOnlyLogged ==
    /\ notification.pc # "rejected"
    /\ notification.response # "none" => notification.pc = "resolved"
    /\ notification.logged =
           (IF notification.response \in {"notOk", "networkError"} THEN 1 ELSE 0)

\* C30 witness: the Teams webhook answered with a non-OK response; the call
\* resolved and logged the failure
C30_Witness ==
    /\ notification.channel = "teams" /\ notification.response = "notOk"
    /\ notification.pc = "resolved" /\ notification.logged = 1
    /\ Len(notification.posts) = 1

=============================================================================
